---- MODULE Spec2Model ----
\* Verification model of the resume-performance analytics of GradTracker:
\* the ResumeInsights component (src/components/ResumesDisplay.tsx, second
\* module of the file, lines 161-725), its two snapshot subscriptions, its
\* recompute effect, calculateAnalytics and the values derived at render;
\* the edit and delete dialogs of the Dashboard (src/pages/index.tsx); the
\* rate limiter of the API routes (src/lib/rateLimit.js, withRateLimit.js).
EXTENDS Integers, Sequences, FiniteSets, TLC

VARIABLES applications, resumes, analytics, loading, effectPending, overallStats, snapshots,
          selectedMetric, chartData, statusData, recommendations, topResume

\* The Dashboard: the applications collection, the state of the two dialogs,
\* the updateDoc and deleteDoc calls in flight, the client's clock.
VARIABLES store, editingApplication, deletingApplication, editFormData,
          isUpdating, isDeleting, updateInFlight, deleteInFlight, clientTime

insightsVars == <<applications, resumes, analytics, loading, effectPending, overallStats, snapshots,
                  selectedMetric, chartData, statusData, recommendations, topResume>>

dashboardVars == <<store, editingApplication, deletingApplication, editFormData,
                   isUpdating, isDeleting, updateInFlight, deleteInFlight, clientTime>>

\* The API server: the rateLimit map, the server's clock, the number of
\* requests served, the response to the latest one, and the times of the
\* requests accepted so far, per identifier.
VARIABLES rateLimit, serverTime, served, lastResponse, acceptedLog

limiterVars == <<rateLimit, serverTime, served, lastResponse, acceptedLog>>

vars == <<insightsVars, dashboardVars, limiterVars>>

-----------------------------------------------------------------------------
\* Bounds of the model.

\* Largest number of application documents in the store.
MaxApps == 2

\* Largest number of snapshots the two subscriptions deliver in one run.
MaxSnapshots == 3

\* Largest number of applications linked to one resume when the derived
\* values are computed for whole groups of applications.
MaxLinked == 5

\* Number of applications whose resume has since been deleted, when there
\* are any, in the groups of applications the derived values are computed for.
MaxDangling == 13

\* Latest reading of the client's clock in the Dashboard.
MaxClientTime == 2

\* The limit and the window, in milliseconds, the routes are wrapped with
\* (scaled down from 100, or 50, per 60000).
Limit == 2

WindowMs == 2

\* Latest reading of the server's clock, and largest number of requests.
MaxServerTime == 4

MaxRequests == 5

\* Identifiers of the application documents (opaque, unique, ordered as the
\* default document-id order of an unordered collection query).
AppIds == 1..MaxApps

\* Identifiers of the resume documents.
ResumeIds == {"r1", "r2"}

\* resumeId of an application that has none ('' / null / undefined: all falsy).
NoResume == "none"

\* The statuses an application document can carry: the 5-stage set written by
\* the application form and the 6-stage set declared by the dashboard.
FiveStageStatuses == {"to-apply", "applied", "interviewing", "offer", "rejected"}

SixStageStatuses == {"saved", "applied", "phone-screen", "interview", "offer", "rejected"}

Statuses == FiveStageStatuses \cup SixStageStatuses

-----------------------------------------------------------------------------
\* Arithmetic.  The code computes rates in IEEE doubles as n / d * 100 with
\* small non-negative integers n <= d.  They are modelled as integers in units
\* of 1/Scale percent, Scale being a common multiple of every denominator up
\* to MaxDenominator (the applications of one resume, the entries of the
\* list), for which the value is exact.  Order and equality of such quotients
\* are the same in doubles as in the rationals at these sizes.  The overall
\* rates of larger groups of applications are exact when d divides 100 * Scale
\* and rounded down to 1/Scale percent otherwise, which does not change their
\* comparison with a whole percentage.

RECURSIVE Gcd(_, _)
Gcd(a, b) == IF b = 0 THEN a ELSE Gcd(b, a % b)

Lcm(a, b) == (a * b) \div Gcd(a, b)

RECURSIVE LcmUpTo(_)
LcmUpTo(n) == IF n <= 1 THEN 1 ELSE Lcm(n, LcmUpTo(n - 1))

Largest(S) == CHOOSE x \in S : \A y \in S : y <= x

MaxDenominator == Largest({MaxApps, MaxLinked, Cardinality(ResumeIds)})

Scale == LcmUpTo(MaxDenominator)

\* n / d * 100
Pct(n, d) == (n * 100 * Scale) \div d

\* n / d
Ratio(n, d) == (n * Scale) \div d

-----------------------------------------------------------------------------
\* Documents and snapshots.

\* Resume names are strings of characters: "Data Analyst CV" (15 characters)
\* and "Software Engineer CV" (20 characters).
ResumeName(r) ==
    IF r = "r1"
    THEN <<"D", "a", "t", "a", " ", "A", "n", "a", "l", "y", "s", "t", " ", "C", "V">>
    ELSE <<"S", "o", "f", "t", "w", "a", "r", "e", " ", "E", "n", "g", "i", "n", "e", "e", "r", " ", "C", "V">>

Resume(r) == [id |-> r, name |-> ResumeName(r)]

Application(i, s, r) == [id |-> i, status |-> s, resumeId |-> r]

ApplicationDocs == {Application(i, s, r) : i \in AppIds, s \in Statuses, r \in ResumeIds \cup {NoResume}}

\* A snapshot of the applications collection: documents with distinct ids in
\* increasing id order.
IsAppSnapshot(q) ==
    /\ \A i \in 1..Len(q) : q[i] \in ApplicationDocs
    /\ \A i \in 1..Len(q) : \A j \in 1..Len(q) : i < j => q[i].id < q[j].id

\* The snapshots whose documents have ids i and above.
RECURSIVE AppSnapshotsFrom(_)
AppSnapshotsFrom(i) ==
    IF i > MaxApps THEN {<<>>}
    ELSE LET rest == AppSnapshotsFrom(i + 1)
         IN rest \cup {<<Application(i, s, r)>> \o q : s \in Statuses, r \in ResumeIds \cup {NoResume}, q \in rest}

AppSnapshots == AppSnapshotsFrom(1)

RECURSIVE SeqsUpTo(_, _)
SeqsUpTo(S, n) == IF n = 0 THEN {<<>>}
                  ELSE LET shorter == SeqsUpTo(S, n - 1)
                       IN shorter \cup {Append(q, x) : q \in {p \in shorter : Len(p) = n - 1}, x \in S}

\* A snapshot of the resumes collection: distinct resumes, in uploadDate order
\* (any order of the ids, the dates being arbitrary).
IsResumeSnapshot(q) == \A i \in 1..Len(q) : \A j \in 1..Len(q) : i # j => q[i].id # q[j].id

ResumeSnapshots == {q \in SeqsUpTo({Resume(r) : r \in ResumeIds}, Cardinality(ResumeIds)) : IsResumeSnapshot(q)}

-----------------------------------------------------------------------------
\* calculateAnalytics.

\* The accumulator created for one resume (initialisation loop).
EmptyStats(resume) ==
    [resumeId |-> resume.id, resumeName |-> resume.name,
     totalApplications |-> 0, toApplyCount |-> 0, appliedCount |-> 0,
     interviewingCount |-> 0, offerCount |-> 0, rejectedCount |-> 0,
     applyRate |-> 0, interviewRate |-> 0, offerRate |-> 0,
     overallSuccessRate |-> 0, averageTimeToResponse |-> 0]

\* InitResumeStats with resumeStats kept between runs: a resume that has an
\* entry in the stored list starts from that entry.
InitResumeStats_KeptBetweenRuns(res) ==
    [i \in 1..Len(res) |->
        IF \E k \in 1..Len(analytics) : analytics[k].resumeId = res[i].id
        THEN CHOOSE e \in {analytics[k] : k \in 1..Len(analytics)} : e.resumeId = res[i].id
        ELSE EmptyStats(res[i])]

\* resumeStats after the initialisation loop: one accumulator per resume, in
\* the insertion order of the keys, which is the order of the resumes.
InitResumeStats(res) == [i \in 1..Len(res) |-> EmptyStats(res[i])]

\* The switch on app.status: the counter a status increments, none for a
\* status the switch has no case for.
CountStatus(stats, status) ==
    CASE status = "to-apply" -> [stats EXCEPT !.toApplyCount = @ + 1]
      [] status = "applied" -> [stats EXCEPT !.appliedCount = @ + 1]
      [] status = "interviewing" -> [stats EXCEPT !.interviewingCount = @ + 1]
      [] status = "offer" -> [stats EXCEPT !.offerCount = @ + 1]
      [] status = "rejected" -> [stats EXCEPT !.rejectedCount = @ + 1]
      [] OTHER -> stats

\* CountApplication with the guard reduced to "has a resumeId": an application
\* whose resume is unknown is counted on the first accumulator.
CountApplication_AnyResume(resumeStats, app) ==
    IF app.resumeId # NoResume /\ Len(resumeStats) > 0
    THEN LET known == \E i \in 1..Len(resumeStats) : resumeStats[i].resumeId = app.resumeId
         IN [i \in 1..Len(resumeStats) |->
               IF resumeStats[i].resumeId = app.resumeId \/ (~known /\ i = 1)
               THEN CountStatus([resumeStats[i] EXCEPT !.totalApplications = @ + 1], app.status)
               ELSE resumeStats[i]]
    ELSE resumeStats

\* The body of applications.forEach for one application.
CountApplication(resumeStats, app) ==
    IF app.resumeId # NoResume /\ \E i \in 1..Len(resumeStats) : resumeStats[i].resumeId = app.resumeId
    THEN [i \in 1..Len(resumeStats) |->
            IF resumeStats[i].resumeId = app.resumeId
            THEN CountStatus([resumeStats[i] EXCEPT !.totalApplications = @ + 1], app.status)
            ELSE resumeStats[i]]
    ELSE resumeStats

\* applications.forEach, from application k on.
RECURSIVE CountApplications(_, _, _)
CountApplications(resumeStats, apps, k) ==
    IF k > Len(apps) THEN resumeStats
    ELSE CountApplications(CountApplication(resumeStats, apps[k]), apps, k + 1)

\* CalculateRates with the interview rate inverted (applied over interviews).
CalculateRates_InterviewInverted(stats) ==
    IF stats.totalApplications > 0
    THEN LET progressedFromToApply == stats.appliedCount + stats.interviewingCount + stats.offerCount + stats.rejectedCount
             appliedTotal == stats.appliedCount + stats.interviewingCount + stats.offerCount + stats.rejectedCount
             interviewingTotal == stats.interviewingCount + stats.offerCount
         IN [stats EXCEPT
               !.applyRate = Pct(progressedFromToApply, stats.totalApplications),
               !.interviewRate = IF interviewingTotal > 0
                                 THEN Pct(appliedTotal, interviewingTotal)
                                 ELSE @,
               !.offerRate = IF interviewingTotal > 0
                             THEN Pct(stats.offerCount, interviewingTotal)
                             ELSE @,
               !.overallSuccessRate = Pct(stats.offerCount, stats.totalApplications)]
    ELSE stats

\* CalculateRates with the offer rate taken over all applications.
CalculateRates_OfferOverTotal(stats) ==
    IF stats.totalApplications > 0
    THEN LET progressedFromToApply == stats.appliedCount + stats.interviewingCount + stats.offerCount + stats.rejectedCount
             appliedTotal == stats.appliedCount + stats.interviewingCount + stats.offerCount + stats.rejectedCount
             interviewingTotal == stats.interviewingCount + stats.offerCount
         IN [stats EXCEPT
               !.applyRate = Pct(progressedFromToApply, stats.totalApplications),
               !.interviewRate = IF appliedTotal > 0
                                 THEN Pct(stats.interviewingCount + stats.offerCount, appliedTotal)
                                 ELSE @,
               !.offerRate = IF interviewingTotal > 0
                             THEN Pct(stats.offerCount, stats.totalApplications)
                             ELSE @,
               !.overallSuccessRate = Pct(stats.offerCount, stats.totalApplications)]
    ELSE stats

\* CalculateRates with the overall success rate taken over the applied total.
CalculateRates_SuccessOverApplied(stats) ==
    IF stats.totalApplications > 0
    THEN LET progressedFromToApply == stats.appliedCount + stats.interviewingCount + stats.offerCount + stats.rejectedCount
             appliedTotal == stats.appliedCount + stats.interviewingCount + stats.offerCount + stats.rejectedCount
             interviewingTotal == stats.interviewingCount + stats.offerCount
         IN [stats EXCEPT
               !.applyRate = Pct(progressedFromToApply, stats.totalApplications),
               !.interviewRate = IF appliedTotal > 0
                                 THEN Pct(stats.interviewingCount + stats.offerCount, appliedTotal)
                                 ELSE @,
               !.offerRate = IF interviewingTotal > 0
                             THEN Pct(stats.offerCount, interviewingTotal)
                             ELSE @,
               !.overallSuccessRate = IF appliedTotal > 0
                                      THEN Pct(stats.offerCount, appliedTotal)
                                      ELSE 0]
    ELSE stats

\* The rate computation for one accumulator.
CalculateRates(stats) ==
    IF stats.totalApplications > 0
    THEN LET progressedFromToApply == stats.appliedCount + stats.interviewingCount + stats.offerCount + stats.rejectedCount
             appliedTotal == stats.appliedCount + stats.interviewingCount + stats.offerCount + stats.rejectedCount
             interviewingTotal == stats.interviewingCount + stats.offerCount
         IN [stats EXCEPT
               !.applyRate = Pct(progressedFromToApply, stats.totalApplications),
               !.interviewRate = IF appliedTotal > 0
                                 THEN Pct(stats.interviewingCount + stats.offerCount, appliedTotal)
                                 ELSE @,
               !.offerRate = IF interviewingTotal > 0
                             THEN Pct(stats.offerCount, interviewingTotal)
                             ELSE @,
               !.overallSuccessRate = Pct(stats.offerCount, stats.totalApplications)]
    ELSE stats

\* HasApplications with the comparison loosened to >=.
HasApplications_OrNone(stats) == stats.totalApplications >= 0

HasApplications(stats) == stats.totalApplications > 0

\* The list calculateAnalytics hands to setAnalytics.
CalculateAnalytics(apps, res) ==
    LET counted == CountApplications(InitResumeStats(res), apps, 1)
        rated == [i \in 1..Len(counted) |-> CalculateRates(counted[i])]
    IN SelectSeq(rated, HasApplications)

-----------------------------------------------------------------------------
\* Values derived at render.

GetTotalApplications(apps) == Len(SelectSeq(apps, LAMBDA app : app.resumeId # NoResume))

\* GetOverallStats without the resumeId filter: every application counts.
GetOverallStats_AllApplications(apps, an) ==
    LET totalWithResume == SelectSeq(apps, LAMBDA app : TRUE)
        offers == SelectSeq(totalWithResume, LAMBDA app : app.status = "offer")
        interviews == SelectSeq(totalWithResume, LAMBDA app : app.status = "interviewing" \/ app.status = "offer")
        applied == SelectSeq(totalWithResume, LAMBDA app : app.status \in {"applied", "interviewing", "offer", "rejected"})
    IN [totalApplications |-> Len(totalWithResume),
        overallSuccessRate |-> IF Len(totalWithResume) > 0 THEN Pct(Len(offers), Len(totalWithResume)) ELSE 0,
        overallInterviewRate |-> IF Len(applied) > 0 THEN Pct(Len(interviews), Len(applied)) ELSE 0,
        averageApplicationsPerResume |-> IF Len(an) > 0 THEN Ratio(Len(totalWithResume), Len(an)) ELSE 0]

GetOverallStats(apps, an) ==
    LET totalWithResume == SelectSeq(apps, LAMBDA app : app.resumeId # NoResume)
        offers == SelectSeq(totalWithResume, LAMBDA app : app.status = "offer")
        interviews == SelectSeq(totalWithResume, LAMBDA app : app.status = "interviewing" \/ app.status = "offer")
        applied == SelectSeq(totalWithResume, LAMBDA app : app.status \in {"applied", "interviewing", "offer", "rejected"})
    IN [totalApplications |-> Len(totalWithResume),
        overallSuccessRate |-> IF Len(totalWithResume) > 0 THEN Pct(Len(offers), Len(totalWithResume)) ELSE 0,
        overallInterviewRate |-> IF Len(applied) > 0 THEN Pct(Len(interviews), Len(applied)) ELSE 0,
        averageApplicationsPerResume |-> IF Len(an) > 0 THEN Ratio(Len(totalWithResume), Len(an)) ELSE 0]

\* analytics.sort((a, b) => b.overallSuccessRate - a.overallSuccessRate) of
\* the detail table: a stable sort, descending, of the stored array in place.
RECURSIVE InsertBySuccessRate(_, _)
InsertBySuccessRate(sorted, e) ==
    IF sorted = <<>> THEN <<e>>
    ELSE LET last == sorted[Len(sorted)]
         IN IF last.overallSuccessRate >= e.overallSuccessRate
            THEN Append(sorted, e)
            ELSE Append(InsertBySuccessRate(SubSeq(sorted, 1, Len(sorted) - 1), e), last)

RECURSIVE SortBySuccessRate(_, _)
SortBySuccessRate(an, k) ==
    IF k = 0 THEN <<>>
    ELSE InsertBySuccessRate(SortBySuccessRate(an, k - 1), an[k])

\* What a render shows in place of the statistics: the spinner while loading,
\* the "No Resume Data Yet" panel while the analytics list is empty.
NoStats == [totalApplications |-> -1, overallSuccessRate |-> -1,
            overallInterviewRate |-> -1, averageApplicationsPerResume |-> -1]

\* The component body run with the given state: the early returns, then the
\* derived statistics.
RenderOverallStats(apps, an, ld) ==
    IF ld \/ Len(an) = 0 THEN NoStats ELSE GetOverallStats(apps, an)

\* The analytics array after that render: the detail table sorts it in place
\* unless the render returned early.
RenderAnalytics(an, ld) ==
    IF ld \/ Len(an) = 0 THEN an ELSE SortBySuccessRate(an, Len(an))

\* getTopPerformingResume: null (the empty sequence) for an empty list,
\* otherwise the result of reduce without initial value, as a one-element
\* sequence.
RECURSIVE ReduceBest(_, _, _)
ReduceBest_LastOnTie(best, an, k) ==
    IF k > Len(an) THEN best
    ELSE ReduceBest(IF an[k].overallSuccessRate >= best.overallSuccessRate THEN an[k] ELSE best, an, k + 1)

ReduceBest(best, an, k) ==
    IF k > Len(an) THEN best
    ELSE ReduceBest(IF an[k].overallSuccessRate > best.overallSuccessRate THEN an[k] ELSE best, an, k + 1)

GetTopPerformingResume(an) ==
    IF Len(an) = 0 THEN <<>> ELSE <<ReduceBest(an[1], an, 2)>>

\* Numbers shown with one decimal are carried in tenths: 33.3 is 333.
Decimal(n) == n * 10

\* Math.round(rate * 10) / 10, in tenths.
RoundToTenth_Truncated(rate) == (10 * rate) \div Scale

RoundToTenth(rate) == (2 * 10 * rate + Scale) \div (2 * Scale)

\* rate.toFixed(1), in tenths: the nearest tenth, the larger one on a tie.
ToFixed1(rate) == (2 * 10 * rate + Scale) \div (2 * Scale)

\* The truncation threshold of chart labels.
MaxLabelLength == 15

Ellipsis == <<".", ".", ".">>

\* name.length > 15 ? name.substring(0, 15) + '...' : name
ChartLabel(name) ==
    IF Len(name) > MaxLabelLength THEN SubSeq(name, 1, MaxLabelLength) \o Ellipsis ELSE name

Metrics == {"applications", "success", "interview"}

\* getChartData: analytics.map, one point per entry in the order of the list.
GetChartData(an, metric) ==
    CASE metric = "applications" ->
           [i \in 1..Len(an) |-> [name |-> ChartLabel(an[i].resumeName),
                                  value |-> Decimal(an[i].totalApplications),
                                  fullName |-> an[i].resumeName]]
      [] metric = "success" ->
           [i \in 1..Len(an) |-> [name |-> ChartLabel(an[i].resumeName),
                                  value |-> RoundToTenth(an[i].overallSuccessRate),
                                  fullName |-> an[i].resumeName]]
      [] metric = "interview" ->
           [i \in 1..Len(an) |-> [name |-> ChartLabel(an[i].resumeName),
                                  value |-> RoundToTenth(an[i].interviewRate),
                                  fullName |-> an[i].resumeName]]
      [] OTHER -> <<>>

COLORS == <<"#3B82F6", "#F59E0B", "#10B981", "#EF4444", "#6B7280">>

\* statusCounts[status] || 0 after the reduce over the applications.
StatusCount(apps, status) ==
    Len(SelectSeq(apps, LAMBDA app : app.resumeId # NoResume /\ app.status = status))

\* getStatusDistribution: the five slices, those with value 0 filtered out.
GetStatusDistribution(apps) ==
    IF GetTotalApplications(apps) = 0 THEN <<>>
    ELSE SelectSeq(
           <<[name |-> "To Apply", value |-> StatusCount(apps, "to-apply"), color |-> COLORS[5]],
             [name |-> "Applied", value |-> StatusCount(apps, "applied"), color |-> COLORS[1]],
             [name |-> "Interviewing", value |-> StatusCount(apps, "interviewing"), color |-> COLORS[2]],
             [name |-> "Offers", value |-> StatusCount(apps, "offer"), color |-> COLORS[3]],
             [name |-> "Rejected", value |-> StatusCount(apps, "rejected"), color |-> COLORS[4]]>>,
           LAMBDA item : item.value > 0)

\* The thresholds of the recommendation rules.
LowInterviewRate == 20

LowSuccessRate == 5

LowPerformingMinApplications == 5

\* A recommendation: the rule that wrote it, the resume names its text
\* interpolates (joined by ', ') and the rate it prints (toFixed(1), tenths).
Message(rule, names, rate) == [rule |-> rule, names |-> names, rate |-> rate]

StartLinkingMessage == Message("start-linking", <<>>, 0)

TopPerformerMessage(top) == Message("top-performer", <<top.resumeName>>, ToFixed1(top.overallSuccessRate))

TailorMessage == Message("tailor-resumes", <<>>, 0)

RevisitMessage == Message("revisit-format", <<>>, 0)

UpdateOrReplaceMessage(low) == Message("update-or-replace", [i \in 1..Len(low) |-> low[i].resumeName], 0)

GreatJobMessage == Message("great-job", <<>>, 0)

IsLowPerforming_MoreThanFive(stat) ==
    stat.totalApplications > LowPerformingMinApplications /\ stat.overallSuccessRate = 0

IsLowPerforming(stat) ==
    stat.totalApplications >= LowPerformingMinApplications /\ stat.overallSuccessRate = 0

HasTopAmongSeveral_AnyLength(top, an) == top # <<>>

\* Line 399.
HasTopAmongSeveral(top, an) == top # <<>> /\ Len(an) > 1

BelowInterviewThreshold_Inclusive(stats) == stats.overallInterviewRate <= LowInterviewRate * Scale

\* Line 403.
BelowInterviewThreshold(stats) == stats.overallInterviewRate < LowInterviewRate * Scale

\* Line 407.
BelowSuccessThreshold(stats) == stats.overallSuccessRate < LowSuccessRate * Scale

RuleMessages_FirstMatch(apps, an) ==
    LET top == GetTopPerformingResume(an)
        stats == GetOverallStats(apps, an)
        lowPerformingResumes == SelectSeq(an, IsLowPerforming)
    IN IF HasTopAmongSeveral(top, an) THEN <<TopPerformerMessage(top[1])>>
       ELSE IF BelowInterviewThreshold(stats) THEN <<TailorMessage>>
       ELSE IF BelowSuccessThreshold(stats) THEN <<RevisitMessage>>
       ELSE IF Len(lowPerformingResumes) > 0 THEN <<UpdateOrReplaceMessage(lowPerformingResumes)>>
       ELSE <<>>

\* The four rules of getRecommendations (lines 399-414), each pushing its
\* message onto the list when its condition holds.
RuleMessages(apps, an) ==
    LET top == GetTopPerformingResume(an)
        stats == GetOverallStats(apps, an)
        lowPerformingResumes == SelectSeq(an, IsLowPerforming)
        afterTop == IF HasTopAmongSeveral(top, an)
                    THEN <<TopPerformerMessage(top[1])>> ELSE <<>>
        afterInterview == IF BelowInterviewThreshold(stats)
                          THEN Append(afterTop, TailorMessage) ELSE afterTop
        afterSuccess == IF BelowSuccessThreshold(stats)
                        THEN Append(afterInterview, RevisitMessage) ELSE afterInterview
    IN IF Len(lowPerformingResumes) > 0
       THEN Append(afterSuccess, UpdateOrReplaceMessage(lowPerformingResumes))
       ELSE afterSuccess

GetRecommendations_NoEarlyReturn(apps, an) ==
    IF Len(RuleMessages(apps, an)) = 0 THEN <<GreatJobMessage>>
    ELSE RuleMessages(apps, an)

GetRecommendations_AlwaysGeneric(apps, an) ==
    IF Len(an) = 0 THEN <<StartLinkingMessage>>
    ELSE Append(RuleMessages(apps, an), GreatJobMessage)

\* getRecommendations: the early return for the empty analytics list, the
\* rules, the generic message when no rule pushed one.
GetRecommendations(apps, an) ==
    IF Len(an) = 0 THEN <<StartLinkingMessage>>
    ELSE IF Len(RuleMessages(apps, an)) = 0 THEN <<GreatJobMessage>>
    ELSE RuleMessages(apps, an)

\* The values the component body derives after its early returns (lines
\* 468-472), none when it returned early.
RenderChartData(an, ld, metric) ==
    IF ld \/ Len(an) = 0 THEN <<>> ELSE GetChartData(an, metric)

RenderStatusData(apps, an, ld) ==
    IF ld \/ Len(an) = 0 THEN <<>> ELSE GetStatusDistribution(apps)

RenderRecommendations(apps, an, ld) ==
    IF ld \/ Len(an) = 0 THEN <<>> ELSE GetRecommendations(apps, an)

RenderTopResume(an, ld) ==
    IF ld \/ Len(an) = 0 THEN <<>> ELSE GetTopPerformingResume(an)

\* One run of the component body on the given state: the derived values,
\* computed from the analytics array as it is, then the sort of that array
\* by the detail table.
Render(apps, an, ld, metric) ==
    /\ overallStats' = RenderOverallStats(apps, an, ld)
    /\ chartData' = RenderChartData(an, ld, metric)
    /\ statusData' = RenderStatusData(apps, an, ld)
    /\ recommendations' = RenderRecommendations(apps, an, ld)
    /\ topResume' = RenderTopResume(an, ld)
    /\ analytics' = RenderAnalytics(an, ld)

-----------------------------------------------------------------------------
\* The store as the subscriptions see it: each snapshot carries the whole
\* collection after one more document was written or deleted.

RemoveAt(q, i) == SubSeq(q, 1, i - 1) \o SubSeq(q, i + 1, Len(q))

\* The collection after doc was set (created, or overwritten by an edit).
PutApplication(apps, doc) ==
    LET before == SelectSeq(apps, LAMBDA a : a.id < doc.id)
        after == SelectSeq(apps, LAMBDA a : a.id > doc.id)
    IN before \o <<doc>> \o after

NextApplicationSnapshots(apps) ==
    ({PutApplication(apps, doc) : doc \in ApplicationDocs} \cup {RemoveAt(apps, i) : i \in 1..Len(apps)})
      \ {apps}

\* Resumes are ordered by uploadDate, newest first: an upload goes in front.
NextResumeSnapshots(res) ==
    {<<Resume(r)>> \o res : r \in {x \in ResumeIds : \A i \in 1..Len(res) : res[i].id # x}}
      \cup {RemoveAt(res, i) : i \in 1..Len(res)}

-----------------------------------------------------------------------------
\* The Dashboard's documents and state.

\* Ids of the documents of the applications collection the Dashboard lists.
DashboardIds == {"a1", "a2"}

\* No document under an id; no application selected; no call in flight.
NoDoc == [id |-> "none"]

NoApplication == [id |-> "none"]

NoCall == [id |-> "none"]

\* The statuses the edit form's select is set to.
EditStatuses == {"applied", "interviewing"}

\* A document as ApplicationForm creates it: status 'to-apply', createdAt and
\* updatedAt the time of creation.
NewDoc(id, time) == [id |-> id, status |-> "to-apply", createdAt |-> time, updatedAt |-> time]

InitialStore == [id \in DashboardIds |-> NewDoc(id, 0)]

InitialFormData == [status |-> "to-apply"]

\* useState initial values of the Dashboard (lines 52-72) over the initial
\* collection.
DashboardInit ==
    /\ store = InitialStore
    /\ editingApplication = NoApplication
    /\ deletingApplication = NoApplication
    /\ editFormData = InitialFormData
    /\ isUpdating = FALSE
    /\ isDeleting = FALSE
    /\ updateInFlight = NoCall
    /\ deleteInFlight = NoCall
    /\ clientTime = 0

-----------------------------------------------------------------------------
\* The rate limiter's state.

\* The keys of the map: remote addresses.
Identifiers == {"ip1", "ip2"}

NoResponse == [status |-> 0]

\* The module-level Map of rateLimit.js, empty (a missing key reads as []),
\* before the first request.
LimiterInit ==
    /\ rateLimit = [identifier \in Identifiers |-> <<>>]
    /\ serverTime = 0
    /\ served = 0
    /\ lastResponse = NoResponse
    /\ acceptedLog = [identifier \in Identifiers |-> <<>>]

-----------------------------------------------------------------------------
\* The component.

\* The shape of the state under Spec and CalcSpec, whose application
\* snapshots are drawn from ApplicationDocs.
TypeOK ==
    /\ IsAppSnapshot(applications)
    /\ resumes \in ResumeSnapshots
    /\ loading \in BOOLEAN
    /\ effectPending \in BOOLEAN
    /\ snapshots \in 0..MaxSnapshots
    /\ selectedMetric \in Metrics

\* useState initial values; the recompute effect is due after the first render.
Init ==
    /\ applications = <<>>
    /\ resumes = <<>>
    /\ analytics = <<>>
    /\ loading = TRUE
    /\ effectPending = TRUE
    /\ overallStats = NoStats
    /\ snapshots = 0
    /\ selectedMetric = "applications"
    /\ chartData = <<>>
    /\ statusData = <<>>
    /\ recommendations = <<>>
    /\ topResume = <<>>
    /\ DashboardInit
    /\ LimiterInit

\* onSnapshot callback of the applications collection, and the render that
\* setApplications causes.
ApplicationsSnapshot ==
    \E apps \in NextApplicationSnapshots(applications) :
        /\ snapshots < MaxSnapshots
        /\ snapshots' = snapshots + 1
        /\ applications' = apps
        /\ effectPending' = TRUE
        /\ Render(apps, analytics, loading, selectedMetric)
        /\ UNCHANGED <<resumes, loading, selectedMetric>>
        /\ UNCHANGED <<dashboardVars, limiterVars>>

\* onSnapshot callback of the resumes query, and the render that setResumes
\* and setLoading(false) cause.
ResumesSnapshot ==
    \E res \in NextResumeSnapshots(resumes) :
        /\ snapshots < MaxSnapshots
        /\ snapshots' = snapshots + 1
        /\ resumes' = res
        /\ loading' = FALSE
        /\ effectPending' = TRUE
        /\ Render(applications, analytics, FALSE, selectedMetric)
        /\ UNCHANGED <<applications, selectedMetric>>
        /\ UNCHANGED <<dashboardVars, limiterVars>>

\* useEffect(..., [applications, resumes]): calculateAnalytics when both
\* lists are non-empty, and the render that setAnalytics causes.
RecomputeEffect ==
    /\ effectPending
    /\ effectPending' = FALSE
    /\ IF Len(applications) # 0 /\ Len(resumes) # 0
       THEN LET analyticsData == CalculateAnalytics(applications, resumes)
            IN Render(applications, analyticsData, loading, selectedMetric)
       ELSE UNCHANGED <<analytics, overallStats, chartData, statusData, recommendations, topResume>>
    /\ UNCHANGED <<applications, resumes, loading, snapshots, selectedMetric>>
    /\ UNCHANGED <<dashboardVars, limiterVars>>

Next == ApplicationsSnapshot \/ ResumesSnapshot \/ RecomputeEffect

Spec == Init /\ [][Next]_vars

\* The analytics of every pair of snapshots: the component holding any
\* applications and resumes, with the recompute effect due.
CalcInit ==
    /\ applications \in AppSnapshots
    /\ resumes \in ResumeSnapshots
    /\ analytics = <<>>
    /\ loading = FALSE
    /\ effectPending = TRUE
    /\ overallStats = NoStats
    /\ snapshots = 0
    /\ selectedMetric = "applications"
    /\ chartData = <<>>
    /\ statusData = <<>>
    /\ recommendations = <<>>
    /\ topResume = <<>>
    /\ DashboardInit
    /\ LimiterInit

CalcNext == RecomputeEffect

CalcSpec == CalcInit /\ [][CalcNext]_vars

-----------------------------------------------------------------------------
\* The derived values of the rendered component

\* The metric selector (lines 555-563) exists only in the full render, after
\* both early returns: onChange sets selectedMetric and the body runs again
\* on the analytics array the previous render left.
SelectMetric ==
    \E metric \in Metrics \ {selectedMetric} :
        /\ ~loading
        /\ Len(analytics) > 0
        /\ selectedMetric' = metric
        /\ Render(applications, analytics, loading, metric)
        /\ UNCHANGED <<applications, resumes, loading, effectPending, snapshots>>
        /\ UNCHANGED <<dashboardVars, limiterVars>>

\* getRecommendations and getTopPerformingResume called on the component's
\* state as it is, the empty analytics array included, which the render
\* itself never passes to them.
GetRecommendationsCall ==
    /\ recommendations' = GetRecommendations(applications, analytics)
    /\ topResume' = GetTopPerformingResume(analytics)
    /\ UNCHANGED <<applications, resumes, analytics, loading, effectPending, overallStats,
                   snapshots, selectedMetric, chartData, statusData>>
    /\ UNCHANGED <<dashboardVars, limiterVars>>

\* Id of a resume that is no longer in the collection.
DeletedResume == "r0"

\* The applications of one resume, as (status, resumeId) pairs: offers,
\* then interviews, then the remainder at one status.
Group(r, total, offers, interviewing, rest) ==
    [i \in 1..total |->
        <<IF i <= offers THEN "offer"
          ELSE IF i <= offers + interviewing THEN "interviewing"
          ELSE rest, r>>]

Groups(r) ==
    {Group(r, total, offers, interviewing, rest) :
        total \in 0..MaxLinked, offers \in 0..1, interviewing \in 0..1,
        rest \in {"applied", "to-apply"}}

DanglingGroups == {[i \in 1..n |-> <<"to-apply", DeletedResume>>] : n \in {0, MaxDangling}}

WithIds(pairs) == [i \in 1..Len(pairs) |-> Application(i, pairs[i][1], pairs[i][2])]

GroupedSnapshots == {WithIds(g1 \o g2 \o d) : g1 \in Groups("r1"), g2 \in Groups("r2"), d \in DanglingGroups}

ViewInit ==
    /\ applications \in GroupedSnapshots
    /\ resumes \in ResumeSnapshots
    /\ analytics = <<>>
    /\ loading = FALSE
    /\ effectPending = TRUE
    /\ overallStats = NoStats
    /\ snapshots = 0
    /\ selectedMetric = "applications"
    /\ chartData = <<>>
    /\ statusData = <<>>
    /\ recommendations = <<>>
    /\ topResume = <<>>
    /\ DashboardInit
    /\ LimiterInit

ViewNext == RecomputeEffect \/ SelectMetric \/ GetRecommendationsCall

ViewSpec == ViewInit /\ [][ViewNext]_vars

-----------------------------------------------------------------------------
\* The edit and delete dialogs of the Dashboard

\* The applications the list shows, one per document of the collection,
\* with the fields the dialogs read: the id and the edited field.
ListedApplications ==
    {[id |-> id, status |-> store[id].status] : id \in {x \in DashboardIds : store[x].id # "none"}}

\* handleEditApplication: the Edit button of a listed application.
HandleEditApplication ==
    \E application \in ListedApplications :
        /\ editingApplication' = application
        /\ editFormData' = [status |-> application.status]
        /\ UNCHANGED <<store, deletingApplication, isUpdating, isDeleting,
                       updateInFlight, deleteInFlight, clientTime>>
        /\ UNCHANGED <<insightsVars, limiterVars>>

\* handleEditInputChange: a field of the edit form, which exists while the
\* edit dialog is open (line 701).
HandleEditInputChange ==
    \E status \in EditStatuses :
        /\ editingApplication.id # "none"
        /\ editFormData' = [editFormData EXCEPT !.status = status]
        /\ UNCHANGED <<store, editingApplication, deletingApplication, isUpdating, isDeleting,
                       updateInFlight, deleteInFlight, clientTime>>
        /\ UNCHANGED <<insightsVars, limiterVars>>

\* The object handed to updateDoc: the edited fields and a fresh updatedAt.
UpdateData(updatedData, time) == [status |-> updatedData.status, updatedAt |-> time]

\* handleEditFormSubmit and handleUpdateApplication up to the await: the
\* submit button is disabled while isUpdating (line 902); the call names
\* the id of editingApplication.
HandleUpdateApplication ==
    /\ editingApplication.id # "none"
    /\ ~isUpdating
    /\ isUpdating' = TRUE
    /\ updateInFlight' = [id |-> editingApplication.id,
                          data |-> UpdateData(editFormData, clientTime),
                          outcome |-> "pending"]
    /\ UNCHANGED <<store, editingApplication, deletingApplication, editFormData, isDeleting,
                   deleteInFlight, clientTime>>
    /\ UNCHANGED <<insightsVars, limiterVars>>

\* updateDoc replacing the whole document by the data of the call.
ApplyUpdate_Replacing(document, data) ==
    [document EXCEPT !.status = data.status, !.updatedAt = data.updatedAt,
                     !.createdAt = data.updatedAt]

\* updateDoc on a document: the fields of the data are written, the others
\* are kept.
ApplyUpdate(document, data) ==
    [document EXCEPT !.status = data.status, !.updatedAt = data.updatedAt]

\* The collection accepts the update of an existing document.
UpdateDocResolves ==
    /\ updateInFlight.id # "none"
    /\ updateInFlight.outcome = "pending"
    /\ store[updateInFlight.id].id # "none"
    /\ store' = [store EXCEPT ![updateInFlight.id] = ApplyUpdate(@, updateInFlight.data)]
    /\ updateInFlight' = [updateInFlight EXCEPT !.outcome = "resolved"]
    /\ UNCHANGED <<editingApplication, deletingApplication, editFormData, isUpdating, isDeleting,
                   deleteInFlight, clientTime>>
    /\ UNCHANGED <<insightsVars, limiterVars>>

\* The collection rejects the update (connection, permission, or no such
\* document).
UpdateDocRejects ==
    /\ updateInFlight.id # "none"
    /\ updateInFlight.outcome = "pending"
    /\ updateInFlight' = [updateInFlight EXCEPT !.outcome = "rejected"]
    /\ UNCHANGED <<store, editingApplication, deletingApplication, editFormData, isUpdating,
                   isDeleting, deleteInFlight, clientTime>>
    /\ UNCHANGED <<insightsVars, limiterVars>>

\* The selection after the await of handleUpdateApplication, with
\* setEditingApplication(null) in the finally block.
EditingAfterUpdate_ClearedAlways(outcome, editing) == NoApplication

\* The selection after the await of handleUpdateApplication: cleared when
\* updateDoc resolved (line 278), kept in the catch block.
EditingAfterUpdate(outcome, editing) ==
    IF outcome = "resolved" THEN NoApplication ELSE editing

\* handleUpdateApplication after the await: try or catch, then finally.
HandleUpdateSettled ==
    /\ updateInFlight.id # "none"
    /\ updateInFlight.outcome # "pending"
    /\ editingApplication' = EditingAfterUpdate(updateInFlight.outcome, editingApplication)
    /\ isUpdating' = FALSE
    /\ updateInFlight' = NoCall
    /\ UNCHANGED <<store, deletingApplication, editFormData, isDeleting, deleteInFlight, clientTime>>
    /\ UNCHANGED <<insightsVars, limiterVars>>

\* cancelEdit: the Cancel button of the edit dialog, disabled while
\* isUpdating (line 896).
CancelEdit ==
    /\ editingApplication.id # "none"
    /\ ~isUpdating
    /\ editingApplication' = NoApplication
    /\ UNCHANGED <<store, deletingApplication, editFormData, isUpdating, isDeleting,
                   updateInFlight, deleteInFlight, clientTime>>
    /\ UNCHANGED <<insightsVars, limiterVars>>

\* handleDeleteApplication deleting the document at once.
HandleDeleteApplication_DeletesAtOnce ==
    \E application \in ListedApplications :
        /\ deletingApplication' = application
        /\ store' = [store EXCEPT ![application.id] = NoDoc]
        /\ UNCHANGED <<editingApplication, editFormData, isUpdating, isDeleting,
                       updateInFlight, deleteInFlight, clientTime>>
        /\ UNCHANGED <<insightsVars, limiterVars>>

\* handleDeleteApplication: the Delete button of a listed application.
HandleDeleteApplication ==
    \E application \in ListedApplications :
        /\ deletingApplication' = application
        /\ UNCHANGED <<store, editingApplication, editFormData, isUpdating, isDeleting,
                       updateInFlight, deleteInFlight, clientTime>>
        /\ UNCHANGED <<insightsVars, limiterVars>>

\* confirmDeleteApplication up to the await: it returns at once when nothing
\* is selected; the button is disabled while isDeleting (line 970).
ConfirmDeleteApplication ==
    /\ ~isDeleting
    /\ IF deletingApplication.id = "none"
       THEN UNCHANGED <<isDeleting, deleteInFlight>>
       ELSE /\ isDeleting' = TRUE
            /\ deleteInFlight' = [id |-> deletingApplication.id, outcome |-> "pending"]
    /\ UNCHANGED <<store, editingApplication, deletingApplication, editFormData, isUpdating,
                   updateInFlight, clientTime>>
    /\ UNCHANGED <<insightsVars, limiterVars>>

\* The collection deletes the document of the call (no change when there is
\* none).
DeleteDocResolves ==
    /\ deleteInFlight.id # "none"
    /\ deleteInFlight.outcome = "pending"
    /\ store' = [store EXCEPT ![deleteInFlight.id] = NoDoc]
    /\ deleteInFlight' = [deleteInFlight EXCEPT !.outcome = "resolved"]
    /\ UNCHANGED <<editingApplication, deletingApplication, editFormData, isUpdating, isDeleting,
                   updateInFlight, clientTime>>
    /\ UNCHANGED <<insightsVars, limiterVars>>

\* The collection rejects the delete.
DeleteDocRejects ==
    /\ deleteInFlight.id # "none"
    /\ deleteInFlight.outcome = "pending"
    /\ deleteInFlight' = [deleteInFlight EXCEPT !.outcome = "rejected"]
    /\ UNCHANGED <<store, editingApplication, deletingApplication, editFormData, isUpdating,
                   isDeleting, updateInFlight, clientTime>>
    /\ UNCHANGED <<insightsVars, limiterVars>>

\* confirmDeleteApplication after the await: the selection is cleared when
\* deleteDoc resolved (line 308), kept in the catch block; then finally.
ConfirmDeleteSettled ==
    /\ deleteInFlight.id # "none"
    /\ deleteInFlight.outcome # "pending"
    /\ deletingApplication' = IF deleteInFlight.outcome = "resolved"
                              THEN NoApplication ELSE deletingApplication
    /\ isDeleting' = FALSE
    /\ deleteInFlight' = NoCall
    /\ UNCHANGED <<store, editingApplication, editFormData, isUpdating, updateInFlight, clientTime>>
    /\ UNCHANGED <<insightsVars, limiterVars>>

\* cancelDelete: the Cancel button of the delete dialog, disabled while
\* isDeleting (line 964).
CancelDelete ==
    /\ deletingApplication.id # "none"
    /\ ~isDeleting
    /\ deletingApplication' = NoApplication
    /\ UNCHANGED <<store, editingApplication, editFormData, isUpdating, isDeleting,
                   updateInFlight, deleteInFlight, clientTime>>
    /\ UNCHANGED <<insightsVars, limiterVars>>

\* Time passes on the client.
ClientTick ==
    /\ clientTime < MaxClientTime
    /\ clientTime' = clientTime + 1
    /\ UNCHANGED <<store, editingApplication, deletingApplication, editFormData, isUpdating,
                   isDeleting, updateInFlight, deleteInFlight>>
    /\ UNCHANGED <<insightsVars, limiterVars>>

DashboardNext ==
    \/ HandleEditApplication
    \/ HandleEditInputChange
    \/ HandleUpdateApplication
    \/ UpdateDocResolves
    \/ UpdateDocRejects
    \/ HandleUpdateSettled
    \/ CancelEdit
    \/ HandleDeleteApplication
    \/ ConfirmDeleteApplication
    \/ DeleteDocResolves
    \/ DeleteDocRejects
    \/ ConfirmDeleteSettled
    \/ CancelDelete
    \/ ClientTick

DashboardSpec == Init /\ [][DashboardNext]_vars

-----------------------------------------------------------------------------
\* The rate limiter and the wrapper of the API routes

\* requests.filter(timestamp => timestamp > windowStart)
ValidRequests(requests, now, windowMs) ==
    SelectSeq(requests, LAMBDA timestamp : timestamp > now - windowMs)

\* The test of rateLimiter with > in place of >=.
RateLimiterAccepts_Inclusive(map, identifier, now, limit, windowMs) ==
    Len(ValidRequests(map[identifier], now, windowMs)) <= limit

\* rateLimiter's result: false when the limit is reached (line 16).
RateLimiterAccepts(map, identifier, now, limit, windowMs) ==
    Len(ValidRequests(map[identifier], now, windowMs)) < limit

\* The map after rateLimiter with the timestamp recorded before the test.
RateLimiterRecords_Rejected(map, identifier, now, limit, windowMs) ==
    [map EXCEPT ![identifier] = Append(ValidRequests(map[identifier], now, windowMs), now)]

\* The map after rateLimiter: the valid requests and the current timestamp
\* are stored when the call is accepted (lines 21-22), nothing otherwise.
RateLimiterRecords(map, identifier, now, limit, windowMs) ==
    IF RateLimiterAccepts(map, identifier, now, limit, windowMs)
    THEN [map EXCEPT ![identifier] = Append(ValidRequests(map[identifier], now, windowMs), now)]
    ELSE map

\* getRemainingRequests
GetRemainingRequests(map, identifier, now, limit, windowMs) ==
    LET validRequests == ValidRequests(map[identifier], now, windowMs)
    IN IF limit - Len(validRequests) > 0 THEN limit - Len(validRequests) ELSE 0

\* The wrapper invoking the handler whatever rateLimiter returned.
HandlerCalls_Always(accepted) == 1

\* Number of calls of the wrapped handler: none after the 429 response
\* (line 23), the call of line 31 otherwise.
HandlerCalls(accepted) == IF accepted THEN 1 ELSE 0

\* The function withRateLimit returns, for one request: rateLimiter reads
\* the clock, getRemainingRequests reads it again, no earlier.
WithRateLimit ==
    \E identifier \in Identifiers, later \in {serverTime, serverTime + 1} :
        LET accepted == RateLimiterAccepts(rateLimit, identifier, serverTime, Limit, WindowMs)
            recorded == RateLimiterRecords(rateLimit, identifier, serverTime, Limit, WindowMs)
        IN /\ served < MaxRequests
           /\ later <= MaxServerTime
           /\ served' = served + 1
           /\ rateLimit' = recorded
           /\ serverTime' = later
           /\ lastResponse' =
                  [status |-> IF accepted THEN 200 ELSE 429,
                   identifier |-> identifier,
                   at |-> serverTime,
                   remaining |-> GetRemainingRequests(recorded, identifier, later, Limit, WindowMs),
                   remainingAt |-> later,
                   handlerCalls |-> HandlerCalls(accepted)]
           /\ acceptedLog' = IF accepted
                             THEN [acceptedLog EXCEPT ![identifier] = Append(@, serverTime)]
                             ELSE acceptedLog
           /\ UNCHANGED <<insightsVars, dashboardVars>>

\* Time passes on the server.
ServerTick ==
    /\ serverTime < MaxServerTime
    /\ serverTime' = serverTime + 1
    /\ UNCHANGED <<rateLimit, served, lastResponse, acceptedLog>>
    /\ UNCHANGED <<insightsVars, dashboardVars>>

LimiterNext == WithRateLimit \/ ServerTick

LimiterSpec == Init /\ [][LimiterNext]_vars

-----------------------------------------------------------------------------
\* Vocabulary of the properties, counted on the applications themselves.

\* The recompute effect has run on the snapshots the component holds.
EffectHasRun == ~effectPending

\* Number of applications whose resumeId is r and whose status is in S.
LinkedCount(r, S) ==
    Cardinality({i \in 1..Len(applications) : applications[i].resumeId = r /\ applications[i].status \in S})

\* Number of applications that carry a resumeId and whose status is in S.
WithResumeCount(S) ==
    Cardinality({i \in 1..Len(applications) : applications[i].resumeId # NoResume /\ applications[i].status \in S})

KnownResumeIds == {resumes[i].id : i \in 1..Len(resumes)}

Entries(an) == {an[i] : i \in 1..Len(an)}

\* The first stage of either pipeline, and the interview and offer stages.
InitialStage == {"to-apply", "saved"}

InterviewStage == {"interviewing", "interview"}

OfferStage == {"offer"}

MaxRate == 100 * Scale

-----------------------------------------------------------------------------
\* C1: once the recompute effect has run, the stored analytics list is
\* calculateAnalytics of the latest applications snapshot and the latest
\* resumes snapshot (the same entries), also after a snapshot that makes
\* either collection empty; it never reflects an older snapshot.
C1_AnalyticsOfLatestSnapshots ==
    EffectHasRun => Entries(analytics) = Entries(CalculateAnalytics(applications, resumes))

\* C2: in every entry, totalApplications is the sum of the five per-status
\* counts, for applications of any status of the 5-stage or 6-stage set.
C2_TotalIsSumOfCounts ==
    \A e \in Entries(analytics) :
        e.totalApplications = e.toApplyCount + e.appliedCount + e.interviewingCount + e.offerCount + e.rejectedCount

\* C3: the analytics list has no entry with totalApplications = 0, and a
\* resume of the resumes snapshot has an entry exactly when at least one
\* application has its id as resumeId.
C3_EntryIffLinkedApplication ==
    /\ \A e \in Entries(analytics) : e.totalApplications # 0
    /\ EffectHasRun =>
         \A r \in KnownResumeIds :
            (\E e \in Entries(analytics) : e.resumeId = r) <=> LinkedCount(r, Statuses) > 0

C3_Witness ==
    /\ EffectHasRun
    /\ Len(resumes) = 2
    /\ Len(analytics) = 1
    /\ \E r \in KnownResumeIds : LinkedCount(r, Statuses) = 0

\* C4: an application whose resumeId matches no resume is in no entry (every
\* entry belongs to a known resume and its total and counts are those of the
\* applications linked to that resume), yet the overall total counts it; an
\* application without resumeId is counted in neither.
C4_DanglingOnlyInOverallTotal ==
    /\ EffectHasRun =>
         \A e \in Entries(analytics) :
            /\ e.resumeId \in KnownResumeIds
            /\ e.totalApplications = LinkedCount(e.resumeId, Statuses)
            /\ e.toApplyCount = LinkedCount(e.resumeId, {"to-apply"})
            /\ e.appliedCount = LinkedCount(e.resumeId, {"applied"})
            /\ e.interviewingCount = LinkedCount(e.resumeId, {"interviewing"})
            /\ e.offerCount = LinkedCount(e.resumeId, {"offer"})
            /\ e.rejectedCount = LinkedCount(e.resumeId, {"rejected"})
    /\ overallStats # NoStats => overallStats.totalApplications = WithResumeCount(Statuses)

C4_Witness ==
    /\ EffectHasRun
    /\ Len(analytics) = 1
    /\ analytics[1].totalApplications = 1
    /\ overallStats.totalApplications = 2
    /\ \E i \in 1..Len(applications) :
          applications[i].resumeId # NoResume /\ applications[i].resumeId \notin KnownResumeIds

\* C5: in every entry each of the four rates lies between 0 and 100.
C5_RatesWithinPercentRange ==
    \A e \in Entries(analytics) :
        /\ 0 <= e.applyRate /\ e.applyRate <= MaxRate
        /\ 0 <= e.interviewRate /\ e.interviewRate <= MaxRate
        /\ 0 <= e.offerRate /\ e.offerRate <= MaxRate
        /\ 0 <= e.overallSuccessRate /\ e.overallSuccessRate <= MaxRate

C5_Witness ==
    \E e \in Entries(analytics) :
        /\ e.applyRate = MaxRate
        /\ 0 < e.interviewRate /\ e.interviewRate < MaxRate
        /\ e.offerRate = 0

\* C6: applyRate is 100 times the share of the resume's linked applications
\* that are past the initial stage (to-apply, saved): 0 when the only
\* application is in the initial stage, 100 when all are past it.
C6_ApplyRateCountsProgressed ==
    EffectHasRun =>
        \A e \in Entries(analytics) :
            e.applyRate = Pct(LinkedCount(e.resumeId, Statuses \ InitialStage), e.totalApplications)

\* C7: interviewRate is 100 times the applications at the interview or offer
\* stage over those at the applied stage or later, and 0 when there are none
\* of the latter.
C7_InterviewRateCountsInterviews ==
    EffectHasRun =>
        \A e \in Entries(analytics) :
            LET reached == LinkedCount(e.resumeId, InterviewStage \cup OfferStage)
                appliedOrLater == LinkedCount(e.resumeId, {"applied", "rejected"} \cup InterviewStage \cup OfferStage)
            IN e.interviewRate = IF appliedOrLater = 0 THEN 0 ELSE Pct(reached, appliedOrLater)

\* C8: offerRate is 100 * offerCount / (interviewingCount + offerCount), it is
\* 0 when no linked application is at the interview or offer stage, and every
\* rate is a defined number.
C8_OfferRateGuarded ==
    EffectHasRun =>
        \A e \in Entries(analytics) :
            LET offers == LinkedCount(e.resumeId, {"offer"})
                interviewing == LinkedCount(e.resumeId, {"interviewing"})
            IN /\ e.offerCount = offers /\ e.interviewingCount = interviewing
               /\ e.offerRate = IF interviewing + offers = 0 THEN 0 ELSE Pct(offers, interviewing + offers)
               /\ LinkedCount(e.resumeId, InterviewStage \cup OfferStage) = 0 => e.offerRate = 0
               /\ {e.applyRate, e.interviewRate, e.offerRate, e.overallSuccessRate} \subseteq Nat

C8_Witness ==
    /\ EffectHasRun
    /\ \E e \in Entries(analytics) :
          /\ e.interviewingCount + e.offerCount = 0
          /\ e.offerRate = 0
    /\ \E e \in Entries(analytics) :
          /\ e.offerCount = 1
          /\ e.offerRate = MaxRate

\* C9: overallSuccessRate is 100 * offerCount / totalApplications, offerCount
\* being the number of the resume's linked applications with status offer
\* (one applied and one offer application: total 2, offers 1, rate 50).
C9_OverallSuccessRate ==
    EffectHasRun =>
        \A e \in Entries(analytics) :
            /\ e.offerCount = LinkedCount(e.resumeId, {"offer"})
            /\ e.totalApplications = LinkedCount(e.resumeId, Statuses)
            /\ e.overallSuccessRate = Pct(LinkedCount(e.resumeId, {"offer"}), LinkedCount(e.resumeId, Statuses))

C9_Witness ==
    /\ EffectHasRun
    /\ \E e \in Entries(analytics) :
          /\ LinkedCount(e.resumeId, {"applied"}) = 1
          /\ LinkedCount(e.resumeId, {"offer"}) = 1
          /\ e.totalApplications = 2
          /\ e.offerCount = 1
          /\ e.overallSuccessRate = 50 * Scale

\* C10: the overall statistics are those of exactly the applications that
\* carry a resumeId, resolving or not: success rate 100 * offers / total,
\* interview rate 100 * (interviewing or offer) / (applied, interviewing,
\* offer or rejected), average total / number of analytics entries, each 0
\* when its denominator is 0.
C10_OverallStats ==
    overallStats # NoStats =>
        LET total == WithResumeCount(Statuses)
            offers == WithResumeCount({"offer"})
            interviews == WithResumeCount({"interviewing", "offer"})
            applied == WithResumeCount({"applied", "interviewing", "offer", "rejected"})
        IN /\ overallStats.totalApplications = total
           /\ overallStats.overallSuccessRate = IF total = 0 THEN 0 ELSE Pct(offers, total)
           /\ overallStats.overallInterviewRate = IF applied = 0 THEN 0 ELSE Pct(interviews, applied)
           /\ overallStats.averageApplicationsPerResume = IF Len(analytics) = 0 THEN 0 ELSE Ratio(total, Len(analytics))

C10_Witness ==
    /\ overallStats # NoStats
    /\ overallStats.totalApplications = 2
    /\ overallStats.overallSuccessRate = 50 * Scale
    /\ overallStats.overallInterviewRate = 50 * Scale
    /\ overallStats.averageApplicationsPerResume = 2 * Scale
    /\ \E i \in 1..Len(applications) :
          applications[i].resumeId # NoResume /\ applications[i].resumeId \notin KnownResumeIds

-----------------------------------------------------------------------------
\* Claims about the derived values

\* The analytics list as calculateAnalytics returned it for the snapshots of
\* the state, before any render sorted it; empty while nothing was computed.
ComputedAnalytics ==
    IF EffectHasRun /\ Len(applications) # 0 /\ Len(resumes) # 0
    THEN CalculateAnalytics(applications, resumes)
    ELSE <<>>

\* The first entry of the list whose overallSuccessRate no entry exceeds.
IsFirstBest(stat, an) ==
    \E k \in 1..Len(an) :
        /\ stat = an[k]
        /\ \A j \in 1..Len(an) : an[j].overallSuccessRate <= an[k].overallSuccessRate
        /\ \A j \in 1..(k - 1) : an[j].overallSuccessRate < an[k].overallSuccessRate

\* C11: getTopPerformingResume returns null for an empty analytics list and
\* otherwise the entry with the highest overallSuccessRate, the first such
\* entry of the list when several share it.
C11_TopIsFirstBest ==
    IF Len(ComputedAnalytics) = 0
    THEN topResume = <<>>
    ELSE Len(topResume) = 1 /\ IsFirstBest(topResume[1], ComputedAnalytics)

\* Two entries share the highest, non-zero rate and the first was returned.
C11_Witness ==
    /\ Len(ComputedAnalytics) = 2
    /\ ComputedAnalytics[1].overallSuccessRate = ComputedAnalytics[2].overallSuccessRate
    /\ ComputedAnalytics[1].overallSuccessRate > 0
    /\ topResume = <<ComputedAnalytics[1]>>

\* C12: for an empty analytics list getRecommendations returns the single
\* start-linking message and evaluates no other rule, whatever the
\* applications are, applications of deleted resumes with low overall rates
\* included.
C12_EmptyAnalyticsStartLinking ==
    (Len(analytics) = 0 /\ recommendations # <<>>) => recommendations = <<StartLinkingMessage>>

\* The function ran on an empty list while every application refers to a
\* deleted resume and both overall rates are below their thresholds.
C12_Witness ==
    /\ EffectHasRun
    /\ Len(analytics) = 0
    /\ Len(applications) = MaxDangling
    /\ BelowInterviewThreshold(GetOverallStats(applications, analytics))
    /\ BelowSuccessThreshold(GetOverallStats(applications, analytics))
    /\ recommendations = <<StartLinkingMessage>>

\* The conditions of the four rules, stated on the applications and the
\* analytics list of the state; rates are compared by cross-multiplication,
\* a rate with denominator 0 being 0.
TopRuleHolds == Len(analytics) > 1

InterviewRuleHolds ==
    100 * WithResumeCount({"interviewing", "offer"}) <
        LowInterviewRate * WithResumeCount({"applied", "interviewing", "offer", "rejected"})
    \/ WithResumeCount({"applied", "interviewing", "offer", "rejected"}) = 0

SuccessRuleHolds ==
    100 * WithResumeCount({"offer"}) < LowSuccessRate * WithResumeCount(Statuses)
    \/ WithResumeCount(Statuses) = 0

LowRuleHolds ==
    \E stat \in Entries(analytics) :
        stat.totalApplications >= LowPerformingMinApplications /\ stat.overallSuccessRate = 0

RuleHolds(rule) ==
    CASE rule = "top-performer" -> TopRuleHolds
      [] rule = "tailor-resumes" -> InterviewRuleHolds
      [] rule = "revisit-format" -> SuccessRuleHolds
      [] rule = "update-or-replace" -> LowRuleHolds
      [] OTHER -> FALSE

RuleOrder == <<"top-performer", "tailor-resumes", "revisit-format", "update-or-replace">>

RulesOf(recs) == [i \in 1..Len(recs) |-> recs[i].rule]

\* C13: for a non-empty analytics list the rules are not first-match-wins:
\* each of the four rules whose condition holds contributes exactly one
\* message, in the fixed order top performer, interview rate, success rate,
\* low-performing resumes, and the result has between 1 and 4 messages.
C13_EveryHoldingRuleInOrder ==
    Len(analytics) > 0 =>
        /\ Len(recommendations) \in 1..4
        /\ (\E k \in 1..4 : RuleHolds(RuleOrder[k])) =>
               RulesOf(recommendations) = SelectSeq(RuleOrder, RuleHolds)

\* All four rules hold at once and each contributed its message.
C13_Witness ==
    /\ Len(analytics) > 0
    /\ \A k \in 1..4 : RuleHolds(RuleOrder[k])
    /\ RulesOf(recommendations) = RuleOrder

\* The messages of a rule in a list of recommendations.
MessagesOf(rule, recs) == SelectSeq(recs, LAMBDA m : m.rule = rule)

\* t is the rate, given in units of 1/Scale percent, to one decimal.
IsToOneDecimal(t, rate) ==
    /\ 2 * (10 * rate - t * Scale) <= Scale
    /\ 2 * (t * Scale - 10 * rate) <= Scale

\* Scenario 4: r1 has 5 applications and no offer, r2 has 2 applications
\* and 1 offer.
ScenarioFour ==
    /\ KnownResumeIds = ResumeIds
    /\ LinkedCount("r1", Statuses) = 5 /\ LinkedCount("r1", {"offer"}) = 0
    /\ LinkedCount("r2", Statuses) = 2 /\ LinkedCount("r2", {"offer"}) = 1

\* C14: the prioritize-top-performer message is included exactly when the
\* analytics list has more than one entry; it names the resume returned by
\* getTopPerformingResume with that resume's overallSuccessRate; in scenario
\* 4 the list includes both the message naming r2 and the update-or-replace
\* message naming r1.
C14_TopPerformerMessage ==
    Len(analytics) > 0 =>
        /\ Len(MessagesOf("top-performer", recommendations)) = (IF Len(analytics) > 1 THEN 1 ELSE 0)
        /\ \A i \in 1..Len(recommendations) :
               recommendations[i].rule = "top-performer" =>
                   /\ Len(topResume) = 1
                   /\ recommendations[i].names = <<topResume[1].resumeName>>
                   /\ IsToOneDecimal(recommendations[i].rate, topResume[1].overallSuccessRate)
        /\ ScenarioFour =>
               /\ MessagesOf("top-performer", recommendations) = <<Message("top-performer", <<ResumeName("r2")>>, 500)>>
               /\ MessagesOf("update-or-replace", recommendations) = <<Message("update-or-replace", <<ResumeName("r1")>>, 0)>>

\* Scenario 4 was rendered.
C14_Witness ==
    /\ Len(analytics) = 2
    /\ ScenarioFour
    /\ Len(MessagesOf("top-performer", recommendations)) = 1
    /\ Len(MessagesOf("update-or-replace", recommendations)) = 1

\* C15: the tailor message is included exactly when overallInterviewRate is
\* below 20 and the revisit message exactly when overallSuccessRate is below
\* 5, both strictly (a rate of exactly 20, or exactly 5, does not trigger
\* the rule), the rates being those of getOverallStats.
C15_StrictThresholds ==
    Len(analytics) > 0 =>
        LET applied == WithResumeCount({"applied", "interviewing", "offer", "rejected"})
            interviews == WithResumeCount({"interviewing", "offer"})
            total == WithResumeCount(Statuses)
            offers == WithResumeCount({"offer"})
            tailor == Len(MessagesOf("tailor-resumes", recommendations))
            revisit == Len(MessagesOf("revisit-format", recommendations))
        IN /\ tailor = (IF overallStats.overallInterviewRate < LowInterviewRate * Scale THEN 1 ELSE 0)
           /\ revisit = (IF overallStats.overallSuccessRate < LowSuccessRate * Scale THEN 1 ELSE 0)
           /\ (applied > 0 /\ 100 * interviews = LowInterviewRate * applied) => tailor = 0
           /\ (total > 0 /\ 100 * offers = LowSuccessRate * total) => revisit = 0
           /\ (applied > 0 /\ 100 * interviews < LowInterviewRate * applied) => tailor = 1
           /\ (total > 0 /\ 100 * offers < LowSuccessRate * total) => revisit = 1

\* The interview rate is exactly 20 and the success rate exactly 5, and
\* neither message is in the list.
C15_Witness ==
    /\ Len(analytics) > 0
    /\ WithResumeCount({"applied", "interviewing", "offer", "rejected"}) > 0
    /\ 100 * WithResumeCount({"interviewing", "offer"}) =
           LowInterviewRate * WithResumeCount({"applied", "interviewing", "offer", "rejected"})
    /\ 100 * WithResumeCount({"offer"}) = LowSuccessRate * WithResumeCount(Statuses)
    /\ Len(recommendations) > 0
    /\ Len(MessagesOf("tailor-resumes", recommendations)) = 0
    /\ Len(MessagesOf("revisit-format", recommendations)) = 0

\* The known resumes with at least 5 linked applications and no offer.
LowPerformingIds ==
    {r \in KnownResumeIds :
        LinkedCount(r, Statuses) >= 5 /\ LinkedCount(r, {"offer"}) = 0}

NamesIn(msg) == {msg.names[i] : i \in 1..Len(msg.names)}

\* C16: the update-or-replace message is included exactly when some entry
\* has totalApplications >= 5 and overallSuccessRate = 0; it is one message
\* listing the names of all such entries and of no other (an entry with 4
\* applications and no offer, or with 5 applications and 1 offer, is not
\* listed).
C16_UpdateOrReplaceMessage ==
    Len(analytics) > 0 =>
        LET msgs == MessagesOf("update-or-replace", recommendations)
        IN /\ Len(msgs) = (IF LowPerformingIds # {} THEN 1 ELSE 0)
           /\ LowRuleHolds <=> LowPerformingIds # {}
           /\ \A i \in 1..Len(msgs) :
                  /\ NamesIn(msgs[i]) = {ResumeName(r) : r \in LowPerformingIds}
                  /\ Len(msgs[i].names) = Cardinality(LowPerformingIds)

\* r1 has 5 applications and no offer, r2 has 5 applications and 1 offer,
\* and the message lists r1 only.
C16_Witness ==
    /\ Len(analytics) = 2
    /\ LinkedCount("r1", Statuses) = 5 /\ LinkedCount("r1", {"offer"}) = 0
    /\ LinkedCount("r2", Statuses) = 5 /\ LinkedCount("r2", {"offer"}) = 1
    /\ MessagesOf("update-or-replace", recommendations) =
           <<Message("update-or-replace", <<ResumeName("r1")>>, 0)>>

\* C17: the generic positive message is included exactly when the analytics
\* list is non-empty and none of the other rules produced a message; it
\* never appears together with another message, and getRecommendations
\* never returns an empty list.
C17_GenericOnlyWhenNoRule ==
    /\ Len(GetRecommendations(applications, analytics)) >= 1
    /\ Len(analytics) > 0 =>
           LET great == Len(MessagesOf("great-job", recommendations))
           IN /\ great = (IF \E k \in 1..4 : RuleHolds(RuleOrder[k]) THEN 0 ELSE 1)
              /\ great = 1 => Len(recommendations) = 1
              /\ Len(recommendations) >= 1
    /\ Len(analytics) = 0 => Len(MessagesOf("great-job", recommendations)) = 0

\* One resume with an offer among its applications: no rule holds and the
\* list is the generic message alone.
C17_Witness ==
    /\ Len(analytics) = 1
    /\ ~ \E k \in 1..4 : RuleHolds(RuleOrder[k])
    /\ recommendations = <<GreatJobMessage>>

\* The component rendered in full: both early returns were passed.
RenderedInFull == ~loading /\ Len(analytics) > 0

\* The pipeline statuses that some application with a resumeId has.
OccurringStatuses == {s \in Statuses : WithResumeCount({s}) > 0}

PointsFor(s) ==
    {i \in 1..Len(statusData) : statusData[i].value = WithResumeCount({s})}

\* C18: getStatusDistribution counts only the applications with a resumeId,
\* emits one point per pipeline status whose count is > 0, with that count
\* as its value, and no point for a status with count 0 (the empty list
\* when no application references a resume).
C18_OnePointPerOccurringStatus ==
    RenderedInFull =>
        /\ Len(statusData) = Cardinality(OccurringStatuses)
        /\ \A s \in OccurringStatuses : PointsFor(s) # {}
        /\ \A i \in 1..Len(statusData) : statusData[i].value > 0

\* label is the name, cut to its first 15 characters plus an ellipsis when
\* the name has more than 15.
IsLabelOf(label, name) ==
    IF Len(name) > 15
    THEN /\ Len(label) = 18
         /\ \A i \in 1..15 : label[i] = name[i]
         /\ \A i \in 16..18 : label[i] = "."
    ELSE label = name

\* point is the chart point of the entry for the metric; values are in
\* tenths.
IsPointOf(point, stat, metric) ==
    /\ IsLabelOf(point.name, stat.resumeName)
    /\ point.fullName = stat.resumeName
    /\ metric = "applications" => point.value = 10 * stat.totalApplications
    /\ metric = "success" => IsToOneDecimal(point.value, stat.overallSuccessRate)
    /\ metric = "interview" => IsToOneDecimal(point.value, stat.interviewRate)
    /\ (metric = "success" /\ stat.totalApplications = 3 /\ stat.offerCount = 1) => point.value = 333

IsChartOf(chart, an, metric) ==
    /\ Len(chart) = Len(an)
    /\ \A i \in 1..Len(an) : IsPointOf(chart[i], an[i], metric)

\* C19: getChartData produces exactly one point per analytics entry, in the
\* order of the analytics list it reads (the list calculateAnalytics
\* returned, in the render that follows the recomputation; the stored list,
\* in the render that follows a change of metric); the value is
\* totalApplications for the applications metric and the rate rounded to one
\* decimal for the success and interview metrics (1 offer of 3 applications
\* gives 33.3); the label is the resume name, cut to its first 15 characters
\* plus an ellipsis when it is longer than 15 characters.
C19_ChartPoints ==
    [][/\ (effectPending /\ ~effectPending' /\ Len(analytics') > 0) =>
              IsChartOf(chartData', CalculateAnalytics(applications, resumes), selectedMetric')
       /\ selectedMetric' # selectedMetric =>
              IsChartOf(chartData', analytics, selectedMetric')]_vars

\* The success chart of two entries, one with 1 offer of 3 applications
\* shown as 33.3 under its 15-character name, the other under its
\* 20-character name cut to 15 characters and an ellipsis.
C19_Witness ==
    /\ selectedMetric = "success"
    /\ Len(chartData) = 2
    /\ \E i, j \in 1..2 :
           /\ chartData[i].value = 333
           /\ Len(chartData[i].fullName) = 15
           /\ chartData[i].name = chartData[i].fullName
           /\ Len(chartData[j].fullName) = 20
           /\ Len(chartData[j].name) = 18

\* The resumes of a chart series, in the order of its points.
SeriesOrder(chart) == [i \in 1..Len(chart) |-> chart[i].fullName]

\* C20: deriving the display outputs (chart series, top performer,
\* recommendations, the sorted detail table) leaves the stored analytics
\* list unchanged in content and in order: after the render that follows a
\* recomputation the stored list is the list calculateAnalytics returned,
\* and the render that follows a change of the selected metric leaves the
\* stored list as it was and shows the chart series in the same order as
\* the render before it.
C20_RenderLeavesAnalyticsUnchanged ==
    [][/\ (effectPending /\ ~effectPending' /\ Len(applications) # 0 /\ Len(resumes) # 0) =>
              analytics' = CalculateAnalytics(applications, resumes)
       /\ selectedMetric' # selectedMetric =>
              /\ analytics' = analytics
              /\ SeriesOrder(chartData') = SeriesOrder(chartData)]_vars

-----------------------------------------------------------------------------
\* Claims about the analytics as a function of the snapshots

\* The entry of a resume, from the applications of the state alone.
ExpectedEntry(resume) ==
    LET r == resume.id
        total == LinkedCount(r, Statuses)
        applied == LinkedCount(r, {"applied", "interviewing", "offer", "rejected"})
        interviews == LinkedCount(r, {"interviewing", "offer"})
        offers == LinkedCount(r, {"offer"})
    IN [resumeId |-> r, resumeName |-> resume.name,
        totalApplications |-> total,
        toApplyCount |-> LinkedCount(r, {"to-apply"}),
        appliedCount |-> LinkedCount(r, {"applied"}),
        interviewingCount |-> LinkedCount(r, {"interviewing"}),
        offerCount |-> offers,
        rejectedCount |-> LinkedCount(r, {"rejected"}),
        applyRate |-> IF total > 0 THEN Pct(applied, total) ELSE 0,
        interviewRate |-> IF applied > 0 THEN Pct(interviews, applied) ELSE 0,
        offerRate |-> IF interviews > 0 THEN Pct(offers, interviews) ELSE 0,
        overallSuccessRate |-> IF total > 0 THEN Pct(offers, total) ELSE 0,
        averageTimeToResponse |-> 0]

\* The entries of the resumes with a linked application, in the order of
\* the resumes snapshot.
ExpectedAnalytics ==
    SelectSeq([i \in 1..Len(resumes) |-> ExpectedEntry(resumes[i])],
              LAMBDA e : e.totalApplications > 0)

\* C21: calculateAnalytics is a deterministic function of the two
\* snapshots: every run on the same applications and resumes yields the same
\* list (entries, counts, rates, order), whatever list was computed from
\* earlier snapshots, and a run leaves both snapshots as they were.
C21_FunctionOfSnapshots ==
    [][(effectPending /\ ~effectPending') =>
          /\ applications' = applications
          /\ resumes' = resumes
          /\ (Len(applications) # 0 /\ Len(resumes) # 0) =>
                 analytics' = SortBySuccessRate(ExpectedAnalytics, Len(ExpectedAnalytics))]_vars

\* The list computed after the last of several snapshots, with an entry per
\* resume, is the one determined by the snapshots.
C21_Witness ==
    /\ EffectHasRun
    /\ snapshots = MaxSnapshots
    /\ Len(analytics) > 0
    /\ analytics = SortBySuccessRate(ExpectedAnalytics, Len(ExpectedAnalytics))

\* Sum of totalApplications over the entries of a list.
RECURSIVE SumOfTotals(_, _)
SumOfTotals(an, k) == IF k = 0 THEN 0 ELSE SumOfTotals(an, k - 1) + an[k].totalApplications

\* Number of applications whose resumeId is the id of a known resume, and
\* of those whose resumeId is the id of no known resume.
KnownLinkedCount ==
    Cardinality({i \in 1..Len(applications) : applications[i].resumeId \in KnownResumeIds})

DanglingCount ==
    Cardinality({i \in 1..Len(applications) :
        applications[i].resumeId # NoResume /\ applications[i].resumeId \notin KnownResumeIds})

\* C29: conservation of counts: the sum of totalApplications over the
\* entries of the analytics list equals the number of applications whose
\* resumeId matches a known resume, is never greater than
\* overallStats.totalApplications, and equals it exactly when no application
\* has a dangling resumeId.
C29_ConservationOfCounts ==
    (EffectHasRun /\ overallStats # NoStats) =>
        LET sum == SumOfTotals(analytics, Len(analytics))
        IN /\ sum = KnownLinkedCount
           /\ sum <= overallStats.totalApplications
           /\ (sum = overallStats.totalApplications) <=> (DanglingCount = 0)

\* C30: the recommendations are never self-contradictory about one resume:
\* the resume cited as top performer in the prioritize message is never
\* also listed in the update-or-replace message of the same list.
C30_TopPerformerNotToReplace ==
    \A i, j \in 1..Len(recommendations) :
        (recommendations[i].rule = "top-performer" /\ recommendations[j].rule = "update-or-replace") =>
            recommendations[i].names[1] \notin NamesIn(recommendations[j])

-----------------------------------------------------------------------------
\* Claims about the Dashboard's dialogs

\* The document exists in the collection.
Exists(document) == document.id # "none"

\* The step in which handleUpdateApplication calls updateDoc, and the steps
\* in which the collection accepts or rejects the call.
UpdateCalled == updateInFlight.id = "none" /\ updateInFlight'.id # "none"

UpdateAccepted ==
    /\ updateInFlight.id # "none"
    /\ updateInFlight.outcome = "pending"
    /\ updateInFlight'.id # "none"
    /\ updateInFlight'.outcome = "resolved"

UpdateRejected ==
    /\ updateInFlight.id # "none"
    /\ updateInFlight.outcome = "pending"
    /\ updateInFlight'.id # "none"
    /\ updateInFlight'.outcome = "rejected"

\* C22: no sequence of edit operations changes an application's createdAt:
\* handleUpdateApplication writes only the edited fields and a fresh
\* updatedAt, and every successful update sets updatedAt to the time of that
\* update.
C22_EditKeepsCreatedAt ==
    [][/\ \A id \in DashboardIds :
              (Exists(store[id]) /\ Exists(store'[id])) => store'[id].createdAt = store[id].createdAt
       /\ UpdateCalled =>
              /\ DOMAIN updateInFlight'.data = {"status", "updatedAt"}
              /\ updateInFlight'.data.status = editFormData.status
              /\ updateInFlight'.data.updatedAt = clientTime
       /\ UpdateAccepted =>
              /\ store'[updateInFlight.id].updatedAt = updateInFlight.data.updatedAt
              /\ store'[updateInFlight.id].status = updateInFlight.data.status
              /\ \A id \in DashboardIds \ {updateInFlight.id} : store'[id] = store[id]]_vars

\* An application edited at the latest time: its updatedAt is that time, its
\* status the edited one, its createdAt the time of its creation.
C22_Witness ==
    /\ Exists(store["a1"])
    /\ store["a1"].createdAt = 0
    /\ store["a1"].updatedAt = MaxClientTime
    /\ store["a1"].status \in EditStatuses
    /\ updateInFlight.id = "none"
    /\ ~isUpdating

\* C23: an application is removed from the store only by
\* confirmDeleteApplication executed while a deletingApplication is
\* selected, and the record removed is exactly that application;
\* handleDeleteApplication alone, cancelDelete, and confirmDeleteApplication
\* with nothing selected remove nothing.
C23_RemovedOnlyByConfirmedDelete ==
    [][/\ (deleteInFlight.id = "none" /\ deleteInFlight'.id # "none") =>
              /\ deletingApplication.id # "none"
              /\ deleteInFlight'.id = deletingApplication.id
       /\ \A id \in DashboardIds :
              (Exists(store[id]) /\ ~Exists(store'[id])) =>
                  /\ deleteInFlight.id = id
                  /\ \A other \in DashboardIds \ {id} : store'[other] = store[other]
       /\ (deletingApplication' # deletingApplication \/ deleteInFlight.id = "none") =>
              \A id \in DashboardIds : Exists(store[id]) => Exists(store'[id])]_vars

\* The first application was deleted through the dialog, the second is
\* selected for deletion and still in the store.
C23_Witness ==
    /\ ~Exists(store["a1"])
    /\ Exists(store["a2"])
    /\ deletingApplication.id = "a2"
    /\ deleteInFlight.id = "none"

\* The steps in which the collection rejects the delete in flight, and in
\* which the two handlers run on after their await.
DeleteRejected ==
    /\ deleteInFlight.id # "none"
    /\ deleteInFlight.outcome = "pending"
    /\ deleteInFlight'.id # "none"
    /\ deleteInFlight'.outcome = "rejected"

UpdateFinished(outcome) ==
    /\ updateInFlight.id # "none"
    /\ updateInFlight.outcome = outcome
    /\ updateInFlight'.id = "none"

DeleteFinished(outcome) ==
    /\ deleteInFlight.id # "none"
    /\ deleteInFlight.outcome = outcome
    /\ deleteInFlight'.id = "none"

\* C28: when the store rejects an update (or a delete), the record in the
\* store is unchanged and the selected editingApplication (or
\* deletingApplication) stays set, so the dialog remains open; on success
\* the selection is cleared; in every outcome isUpdating (or isDeleting) is
\* false again once the attempt has finished.
C28_RejectionKeepsDialogOpen ==
    [][/\ (UpdateRejected \/ DeleteRejected) => store' = store
       /\ UpdateFinished("rejected") =>
              editingApplication.id # "none" /\ editingApplication' = editingApplication
       /\ UpdateFinished("resolved") => editingApplication'.id = "none"
       /\ DeleteFinished("rejected") =>
              deletingApplication.id # "none" /\ deletingApplication' = deletingApplication
       /\ DeleteFinished("resolved") => deletingApplication'.id = "none"
       /\ updateInFlight'.id = "none" => ~isUpdating'
       /\ deleteInFlight'.id = "none" => ~isDeleting']_vars

\* The store has rejected both an update and a delete of the first
\* application: the record is as it was created and both dialogs are open.
C28_Witness ==
    /\ Exists(store["a1"])
    /\ store["a1"].status = "to-apply"
    /\ store["a1"].updatedAt = store["a1"].createdAt
    /\ updateInFlight.id = "a1"
    /\ updateInFlight.outcome = "rejected"
    /\ updateInFlight.data.status \in EditStatuses
    /\ deleteInFlight.id = "a1"
    /\ deleteInFlight.outcome = "rejected"
    /\ editingApplication.id = "a1"
    /\ deletingApplication.id = "a1"

-----------------------------------------------------------------------------
\* Claims about the rate limiter

\* Number of requests of the identifier accepted at a time in from..to.
AcceptedBetween(identifier, from, to) ==
    Cardinality({i \in 1..Len(acceptedLog[identifier]) :
        acceptedLog[identifier][i] >= from /\ acceptedLog[identifier][i] <= to})

\* C24: for every identifier and any sequence of rateLimiter calls with a
\* fixed limit and windowMs and a non-decreasing clock, the number of
\* accepted calls whose timestamps fall in any interval of length windowMs
\* (windowMs consecutive milliseconds) never exceeds limit.
C24_AtMostLimitPerWindow ==
    \A identifier \in Identifiers, start \in 0..MaxServerTime :
        AcceptedBetween(identifier, start, start + WindowMs - 1) <= Limit

\* An identifier was accepted limit times within one window, then rejected,
\* and accepted again later.
C24_Witness ==
    /\ Len(acceptedLog["ip1"]) > Limit
    /\ \E start \in 0..MaxServerTime : AcceptedBetween("ip1", start, start + WindowMs - 1) = Limit
    /\ served > Len(acceptedLog["ip1"]) + Len(acceptedLog["ip2"])

\* The step of one request through the wrapper, and whether rateLimiter
\* accepted it (it recorded the request).
RequestServed == served' = served + 1

RequestAccepted == rateLimit' # rateLimit

\* C25: a request passing through withRateLimit reaches the wrapped handler
\* exactly when rateLimiter accepts it: a rejected request gets a 429
\* response and the handler is never invoked for it, an accepted request
\* invokes the handler exactly once.
C25_HandlerIffAccepted ==
    [][RequestServed =>
          /\ RequestAccepted => (lastResponse'.status = 200 /\ lastResponse'.handlerCalls = 1)
          /\ ~RequestAccepted => (lastResponse'.status = 429 /\ lastResponse'.handlerCalls = 0)
          /\ RequestAccepted <=> acceptedLog' # acceptedLog]_vars

\* A request was rejected with 429 while limit requests of its identifier
\* were in the window, and the handler was not invoked.
C25_Witness ==
    /\ lastResponse.status = 429
    /\ lastResponse.handlerCalls = 0
    /\ AcceptedBetween(lastResponse.identifier, lastResponse.at - WindowMs + 1, lastResponse.at) = Limit

\* The oldest timestamp a non-empty stored list holds.
Oldest(requests) ==
    CHOOSE timestamp \in {requests[i] : i \in 1..Len(requests)} :
        \A i \in 1..Len(requests) : timestamp <= requests[i]

\* The stored requests of an identifier that still count at a time.
StillCounted(identifier, now) == ValidRequests(rateLimit[identifier], now, WindowMs)

\* C26: a rejected rateLimiter call records nothing and leaves the stored
\* timestamps of every identifier unchanged; an identifier is accepted again
\* on its first request made at least windowMs after its oldest
\* still-counted accepted request, however many of its requests were rejected
\* in between.
C26_RejectionRecordsNothing ==
    [][RequestServed =>
          LET identifier == lastResponse'.identifier
              now == lastResponse'.at
          IN /\ lastResponse'.status = 429 => rateLimit' = rateLimit
             /\ \A earlier \in 0..now :
                    LET counted == StillCounted(identifier, earlier)
                    IN (counted # <<>> /\ now >= Oldest(counted) + WindowMs)
                          => lastResponse'.status = 200]_vars

\* An identifier was rejected while full, and its next request, made
\* windowMs after its oldest counted request, was accepted.
C26_Witness ==
    \E identifier \in Identifiers :
        /\ lastResponse.status = 200
        /\ lastResponse.identifier = identifier
        /\ Len(acceptedLog[identifier]) = Limit + 1
        /\ served > Limit + 1
        /\ acceptedLog[identifier][1] = acceptedLog[identifier][Limit]
        /\ lastResponse.at = acceptedLog[identifier][1] + WindowMs
        /\ \A other \in Identifiers \ {identifier} : acceptedLog[other] = <<>>

\* The accepted requests of an identifier in the window that ends at a time.
AcceptedInWindow(identifier, now) == AcceptedBetween(identifier, now - WindowMs + 1, now)

Max0(n) == IF n > 0 THEN n ELSE 0

\* C27: getRemainingRequests leaves the limiter's state alone and returns a
\* value in 0..limit equal to max(0, limit - accepted requests of the
\* identifier in the current window); the remaining field of every 429
\* response is 0, and X-RateLimit-Remaining of an accepted response is limit
\* minus the accepted requests in the window, the current one included.
\* The window is taken at the time getRemainingRequests reads the clock.
C27_RemainingValue ==
    lastResponse.status # 0 =>
        LET inWindow == AcceptedInWindow(lastResponse.identifier, lastResponse.remainingAt)
        IN /\ lastResponse.remaining \in 0..Limit
           /\ lastResponse.remaining = Max0(Limit - inWindow)
           /\ lastResponse.status = 429 => lastResponse.remaining = 0
           /\ lastResponse.status = 200 => lastResponse.remaining = Limit - inWindow


====
